---- MODULE Spec2Model ----
(***************************************************************************)
(* safe_int<I> of safe_integer.hpp: one object of the class, the operators *)
(* applied to it one after another, and what each call throws, returns and *)
(* stores.  I is a two's-complement signed type of Bits bits.              *)
(***************************************************************************)
EXTENDS Integers, FiniteSets

\* width of the underlying type I, scaled down from 8/16/32/64
Bits == 3

Modulus == 2 ^ Bits

\* std::numeric_limits<I>::max() and ::min()
max == 2 ^ (Bits - 1) - 1
min == -max - 1

\* the values of type I
I == min .. max

\* the values of a type N one bit wider than I
N == (2 * min) .. (2 * max + 1)

(***************************************************************************)
(* What the build makes of the arithmetic of type I.                       *)
(*   "promote": I is narrower than int; operands are promoted, expressions *)
(*              are exact, a store to val converts modulo 2^Bits.          *)
(*   "wrap":    I is int or wider; an overflowing expression is undefined  *)
(*              and the machine instruction wraps (min / -1 gives min).    *)
(*   "trap":    as "wrap", but an undefined expression ends the program    *)
(*              (the divide instruction on min / -1, -ftrapv on a product). *)
(*   "exact":   I is int or wider and the optimiser, entitled to assume no  *)
(*              overflow, evaluates an expression of a check to its exact   *)
(*              value; once an out-of-range value is assigned to val the    *)
(*              execution has no defined behaviour and is followed no       *)
(*              further.                                                    *)
(* Whether I is promoted is a property of the type and fixed; what becomes *)
(* of an undefined expression is settled call site by call site.           *)
(***************************************************************************)
Builds == {"promote", "wrap", "trap", "exact"}

\* the conversion rank of I: below int, or int and above
Ranks == {"narrow", "int"}

\* the evaluations open to a call on an object of a type of rank k
Evals(k) == IF k = "narrow" THEN {"promote"} ELSE {"wrap", "trap", "exact"}

Abs(x) == IF x < 0 THEN -x ELSE x

\* conversion of an integer to I (stores to val, implicit conversions)
Wrap(x) == ((x - min) % Modulus) + min

\* C++ integer division and remainder: truncation toward zero
TruncDiv(x, y) ==
    IF (x >= 0) = (y > 0) THEN Abs(x) \div Abs(y) ELSE -(Abs(x) \div Abs(y))

TruncRem(x, y) == x - y * TruncDiv(x, y)

\* value of an expression of type I whose exact value is x
Arith(b, x) == IF b \in {"promote", "exact"} THEN x ELSE Wrap(x)

\* x / y and x % y end the program instead of yielding a value
DivTraps(b, x, y) == y = 0 \/ (b = "trap" /\ x = min /\ y = -1)

Quot(b, x, y) == Arith(b, TruncDiv(x, y))

Rem(b, x, y) == Arith(b, TruncRem(x, y))

\* safe_int::value()
value(s) == s.val

\* a sub-expression of a check that was evaluated, with its exact value
Ev(name, x) == [e |-> name, exact |-> x, divisor |-> 1]

EvDiv(name, x, y) ==
    [e |-> name, exact |-> IF y = 0 THEN 0 ELSE TruncDiv(x, y), divisor |-> y]

\* outcomes of one call: store is what the call stored to val (nothing, or
\* one value), ret what the returned object holds
Returns(r, ev) == [kind |-> "Ok", store |-> {}, ret |-> {r}, ev |-> ev]

Throws(k, ev) == [kind |-> k, store |-> {}, ret |-> {}, ev |-> ev]

Trapped(ev) == [kind |-> "Trap", store |-> {}, ret |-> {}, ev |-> ev]

\* val = x with x the exact value of an expression of type I; return r.
\* An x outside I is converted when I is promoted; for int and wider the
\* expression is undefined: the instruction wraps, the program traps, or
\* the execution goes on without defined behaviour (val then reads the
\* wrapped bits).
Updated(b, x, r, ev) ==
    IF x \in I \/ b \in {"promote", "wrap"}
    THEN [kind |-> "Ok", store |-> {Wrap(x)}, ret |-> {r}, ev |-> ev]
    ELSE IF b = "trap"
    THEN Trapped(ev)
    ELSE [kind |-> "Undefined", store |-> {Wrap(x)}, ret |-> {r}, ev |-> ev]

\* val op= rhs; return *this;  with x the exact value of val op rhs
Stored(b, x, ev) == Updated(b, x, Wrap(x), ev)

\* safe_int(I i) : val { i }
safe_int(i) == [val |-> i]

\* safe_int(I i) called with a scalar n of a wider type: n is converted to
\* I at the call, nothing is checked
safe_int_N(n) == [val |-> Wrap(n)]

\* safe_int(const safe_int&), the implicit copy constructor.  The template
\* safe_int(safe_int<N> n) is disabled for every integral N, so an object is
\* constructed from another safe_int only when that has the same type I.
safe_int_copy(s) == [val |-> value(s)]

\* safe_int& operator=(I v)
OpAssign(v, n) == Updated("wrap", Wrap(n), Wrap(n), {})

\* safe_int operator+()
OpPlus(v) == Returns(value(safe_int(v)), {})

\* operator-() comparing with <= instead of <
OpNegLe(b, v) ==
    IF v <= Arith(b, -max)
    THEN Throws("Overflow", {Ev("-max", -max)})
    ELSE Returns(value(safe_int_N(-v)), {Ev("-max", -max)})

\* safe_int operator-()
OpNeg(b, v) ==
    LET ev == {Ev("-max", -max)}
    IN  IF v < Arith(b, -max)
        THEN Throws("Overflow", ev)
        ELSE Returns(value(safe_int_N(-v)), ev)

\* operator++() incrementing before it checks
OpPreIncFirst(b, v) ==
    IF v = max
    THEN [Throws("Overflow", {}) EXCEPT !.store = {Wrap(v + 1)}]
    ELSE Stored(b, v + 1, {})

\* safe_int& operator++()
OpPreInc(b, v) ==
    IF v = max
    THEN Throws("Overflow", {})
    ELSE Stored(b, v + 1, {})

\* safe_int& operator--()
OpPreDec(b, v) ==
    IF v = min
    THEN Throws("Underflow", {})
    ELSE Stored(b, v - 1, {})

\* operator++(int) returning the incremented value
OpPostIncNew(b, v) ==
    IF v = max
    THEN Throws("Overflow", {})
    ELSE Updated(b, v + 1, Wrap(v + 1), {})

\* safe_int operator++(int)
OpPostInc(b, v) ==
    IF v = max
    THEN Throws("Overflow", {})
    ELSE Updated(b, v + 1, value(safe_int(v)), {})

\* safe_int operator--(int)
OpPostDec(b, v) ==
    IF v = min
    THEN Throws("Underflow", {})
    ELSE Updated(b, v - 1, value(safe_int(v)), {})

\* safe_int& operator+=(I rhs)
OpAddAssign(b, v, r) ==
    LET e1 == IF r > 0 THEN {Ev("max - rhs", max - r)} ELSE {}
        e2 == IF r < 0 THEN {Ev("min - rhs", min - r)} ELSE {}
    IN  IF r > 0 /\ v > Arith(b, max - r)
        THEN Throws("Overflow", e1)
        ELSE IF r < 0 /\ v < Arith(b, min - r)
        THEN Throws("Underflow", e1 \cup e2)
        ELSE Stored(b, v + r, e1 \cup e2)

\* safe_int& operator-=(I rhs)
OpSubAssign(b, v, r) ==
    LET e1 == IF v >= 0 THEN {Ev("-max", -max)} ELSE {}
        e2 == IF r < 0 THEN {Ev("max + rhs", max + r)} ELSE {}
        e3 == IF r > 0 THEN {Ev("min + rhs", min + r)} ELSE {}
    IN  IF v >= 0 /\ r < Arith(b, -max)
        THEN Throws("Overflow", e1)
        ELSE IF r < 0 /\ v > Arith(b, max + r)
        THEN Throws("Overflow", e1 \cup e2)
        ELSE IF r > 0 /\ v < Arith(b, min + r)
        THEN Throws("Underflow", e1 \cup e2 \cup e3)
        ELSE Stored(b, v - r, e1 \cup e2 \cup e3)

\* safe_int& operator*=(I rhs)
OpMulAssign(b, v, r) ==
    LET e1 == {EvDiv("max / val", max, v)}
        e2 == {Ev("-max", -max)}
        e3 == {EvDiv("min / val", min, v)}
    IN  IF v > 0
        THEN IF DivTraps(b, max, v)
             THEN Trapped(e1)
             ELSE IF r > Quot(b, max, v)
             THEN Throws("Overflow", e1)
             ELSE Stored(b, v * r, e1)
        ELSE IF v < 0
        THEN IF (v < Arith(b, -max) \/ r < Arith(b, -max)) /\ (v = -1 \/ r = -1)
             THEN Throws("Overflow", e2)
             ELSE IF DivTraps(b, min, v)
             THEN Trapped(e2 \cup e3)
             ELSE IF r > Quot(b, min, v)
             THEN Throws("Underflow", e2 \cup e3)
             ELSE Stored(b, v * r, e2 \cup e3)
        ELSE Stored(b, v * r, {})

\* operator/=(I) with the two halves of the range check joined by ||
OpDivAssignOr(b, v, r) ==
    IF (v < Arith(b, -max) \/ r < Arith(b, -max)) \/ (v = -1 \/ r = -1)
    THEN Throws("Underflow", {Ev("-max", -max)})
    ELSE IF r = 0
    THEN Throws("DomainError", {Ev("-max", -max)})
    ELSE Stored(b, TruncDiv(v, r), {Ev("-max", -max)})

\* operator/=(I) whose range check looks at val only
OpDivAssignValOnly(b, v, r) ==
    IF v < Arith(b, -max) /\ (v = -1 \/ r = -1)
    THEN Throws("Underflow", {Ev("-max", -max)})
    ELSE IF r = 0
    THEN Throws("DomainError", {Ev("-max", -max)})
    ELSE Stored(b, TruncDiv(v, r), {Ev("-max", -max)})

\* safe_int& operator/=(I rhs)
OpDivAssign(b, v, r) ==
    LET e1 == {Ev("-max", -max)}
    IN  IF (v < Arith(b, -max) \/ r < Arith(b, -max)) /\ (v = -1 \/ r = -1)
        THEN Throws("Underflow", e1)
        ELSE IF r = 0
        THEN Throws("DomainError", e1)
        ELSE IF DivTraps(b, v, r)
        THEN Trapped(e1)
        ELSE Stored(b, TruncDiv(v, r), e1)

\* safe_int& operator%=(I rhs)
OpModAssign(b, v, r) ==
    IF r = 0
    THEN Throws("DomainError", {})
    ELSE IF DivTraps(b, v, r)
    THEN Trapped({})
    ELSE Stored(b, TruncRem(v, r), {})

\* return safe_int(val) op= rhs;  the temporary is changed, *this is not
OnCopy(res) == [res EXCEPT !.store = {}]

\* safe_int operator+(I rhs)
OpAdd(b, v, r) == OnCopy(OpAddAssign(b, value(safe_int(v)), r))

\* safe_int operator-(I rhs)
OpSub(b, v, r) == OnCopy(OpSubAssign(b, value(safe_int(v)), r))

\* safe_int operator*(I rhs)
OpMul(b, v, r) == OnCopy(OpMulAssign(b, value(safe_int(v)), r))

\* safe_int operator/(I rhs)
OpDiv(b, v, r) == OnCopy(OpDivAssign(b, value(safe_int(v)), r))

\* safe_int operator%(I rhs)
OpMod(b, v, r) == OnCopy(OpModAssign(b, value(safe_int(v)), r))

\* the overloads taking safe_int rhs
OpAddAssignSafe(b, v, s) == OpAddAssign(b, v, value(s))

OpSubAssignSafe(b, v, s) == OpSubAssign(b, v, value(s))

OpMulAssignSafe(b, v, s) == OpMulAssign(b, v, value(s))

OpDivAssignSafe(b, v, s) == OpDivAssign(b, v, value(s))

OpModAssignSafe(b, v, s) == OpModAssign(b, v, value(s))

OpAddSafe(b, v, s) == OnCopy(OpAddAssign(b, value(safe_int(v)), value(s)))

OpSubSafe(b, v, s) == OnCopy(OpSubAssign(b, value(safe_int(v)), value(s)))

OpMulSafe(b, v, s) == OnCopy(OpMulAssign(b, value(safe_int(v)), value(s)))

OpDivSafe(b, v, s) == OnCopy(OpDivAssign(b, value(safe_int(v)), value(s)))

OpModSafe(b, v, s) == OnCopy(OpModAssign(b, value(safe_int(v)), value(s)))

(***************************************************************************)
(* One object x of type safe_int<I> and the last call made on it.          *)
(***************************************************************************)
VARIABLES
    rank,   \* the conversion rank of I
    val,    \* x.val
    pre,    \* x.val when the last call was entered
    op,     \* the last call
    rhs,    \* its argument (0 for the unary operators)
    kind,   \* "Ok", the exception it threw, "Trap" or "Undefined"
    ret,    \* what the object it returned holds, if any
    evald   \* the sub-expressions its checks evaluated

vars == <<rank, val, pre, op, rhs, kind, ret, evald>>

\* a newly constructed object replaces x
Constructed(s) == [kind |-> "Ok", store |-> {value(s)}, ret |-> {}, ev |-> {}]

\* safe_int<I> x(i) with i of type I
Init ==
    /\ rank \in Ranks
    /\ \E i \in I :
          /\ val = value(safe_int(i))
          /\ pre = i
          /\ rhs = i
    /\ op = "safe_int(I)"
    /\ kind = "Ok"
    /\ ret = {}
    /\ evald = {}

\* one call on x; a trap has ended the program, and an execution without
\* defined behaviour is not continued
Call(name, r, res) ==
    /\ kind \notin {"Trap", "Undefined"}
    /\ rank' = rank
    /\ pre' = val
    /\ op' = name
    /\ rhs' = r
    /\ val' = IF res.store = {} THEN val ELSE CHOOSE x \in res.store : TRUE
    /\ kind' = res.kind
    /\ ret' = res.ret
    /\ evald' = res.ev

ConstructScalar == \E n \in N : Call("safe_int(N)", n, Constructed(safe_int_N(n)))

\* from another object of the type
ConstructCopy ==
    \E n \in I :
        Call("safe_int(safe_int)", n, Constructed(safe_int_copy(safe_int(n))))

Assign == \E n \in N : Call("=", n, OpAssign(val, n))

Plus == Call("+x", 0, OpPlus(val))

Neg == \E b \in Evals(rank) : Call("-x", 0, OpNeg(b, val))

PreInc == \E b \in Evals(rank) : Call("++x", 0, OpPreInc(b, val))

PreDec == \E b \in Evals(rank) : Call("--x", 0, OpPreDec(b, val))

PostInc == \E b \in Evals(rank) : Call("x++", 0, OpPostInc(b, val))

PostDec == \E b \in Evals(rank) : Call("x--", 0, OpPostDec(b, val))

AddAssign ==
    \E b \in Evals(rank), r \in I : Call("+=", r, OpAddAssign(b, val, r))

SubAssign ==
    \E b \in Evals(rank), r \in I : Call("-=", r, OpSubAssign(b, val, r))

MulAssign ==
    \E b \in Evals(rank), r \in I : Call("*=", r, OpMulAssign(b, val, r))

DivAssign ==
    \E b \in Evals(rank), r \in I : Call("/=", r, OpDivAssign(b, val, r))

ModAssign ==
    \E b \in Evals(rank), r \in I : Call("%=", r, OpModAssign(b, val, r))

Add ==
    \E b \in Evals(rank), r \in I : Call("+", r, OpAdd(b, val, r))

Sub ==
    \E b \in Evals(rank), r \in I : Call("-", r, OpSub(b, val, r))

Mul ==
    \E b \in Evals(rank), r \in I : Call("*", r, OpMul(b, val, r))

Div ==
    \E b \in Evals(rank), r \in I : Call("/", r, OpDiv(b, val, r))

Mod ==
    \E b \in Evals(rank), r \in I : Call("%", r, OpMod(b, val, r))

AddAssignSafe ==
    \E b \in Evals(rank), r \in I : Call("+= safe_int", r, OpAddAssignSafe(b, val, safe_int(r)))

SubAssignSafe ==
    \E b \in Evals(rank), r \in I : Call("-= safe_int", r, OpSubAssignSafe(b, val, safe_int(r)))

MulAssignSafe ==
    \E b \in Evals(rank), r \in I : Call("*= safe_int", r, OpMulAssignSafe(b, val, safe_int(r)))

DivAssignSafe ==
    \E b \in Evals(rank), r \in I : Call("/= safe_int", r, OpDivAssignSafe(b, val, safe_int(r)))

ModAssignSafe ==
    \E b \in Evals(rank), r \in I : Call("%= safe_int", r, OpModAssignSafe(b, val, safe_int(r)))

AddSafe ==
    \E b \in Evals(rank), r \in I : Call("+ safe_int", r, OpAddSafe(b, val, safe_int(r)))

SubSafe ==
    \E b \in Evals(rank), r \in I : Call("- safe_int", r, OpSubSafe(b, val, safe_int(r)))

MulSafe ==
    \E b \in Evals(rank), r \in I : Call("* safe_int", r, OpMulSafe(b, val, safe_int(r)))

DivSafe ==
    \E b \in Evals(rank), r \in I : Call("/ safe_int", r, OpDivSafe(b, val, safe_int(r)))

ModSafe ==
    \E b \in Evals(rank), r \in I : Call("% safe_int", r, OpModSafe(b, val, safe_int(r)))

Next ==
    \/ ConstructScalar \/ ConstructCopy \/ Assign
    \/ Plus \/ Neg \/ PreInc \/ PreDec \/ PostInc \/ PostDec
    \/ AddAssign \/ SubAssign \/ MulAssign \/ DivAssign \/ ModAssign
    \/ Add \/ Sub \/ Mul \/ Div \/ Mod
    \/ AddAssignSafe \/ SubAssignSafe \/ MulAssignSafe \/ DivAssignSafe \/ ModAssignSafe
    \/ AddSafe \/ SubSafe \/ MulSafe \/ DivSafe \/ ModSafe

Spec == Init /\ [][Next]_vars

TypeOK ==
    /\ rank \in Ranks
    /\ val \in I
    /\ pre \in I
    /\ rhs \in N
    /\ kind \in {"Ok", "Overflow", "Underflow", "DomainError", "Trap", "Undefined"}
    /\ ret \subseteq I

(***************************************************************************)
(* The properties.  Exact is the mathematical result of the last call on   *)
(* the operand it was applied to, pre, and its argument, rhs.              *)
(***************************************************************************)
AddOps == {"+=", "+", "+= safe_int", "+ safe_int"}

SubOps == {"-=", "-", "-= safe_int", "- safe_int"}

MulOps == {"*=", "*", "*= safe_int", "* safe_int"}

DivOps == {"/=", "/", "/= safe_int", "/ safe_int"}

ModOps == {"%=", "%", "%= safe_int", "% safe_int"}

CompoundOps ==
    {"+=", "-=", "*=", "/=", "%=",
     "+= safe_int", "-= safe_int", "*= safe_int", "/= safe_int", "%= safe_int"}

BinaryOps ==
    {"+", "-", "*", "/", "%",
     "+ safe_int", "- safe_int", "* safe_int", "/ safe_int", "% safe_int"}

IncOps == {"++x", "x++"}

DecOps == {"--x", "x--"}

Failures == {"Overflow", "Underflow", "DomainError"}

\* what value() reads from the returned object
RetVal == {Wrap(x) : x \in ret}

HasExact ==
    \/ op \in AddOps \cup SubOps \cup MulOps \cup IncOps \cup DecOps \cup {"-x"}
    \/ op \in DivOps \cup ModOps /\ rhs # 0

Exact ==
    CASE op \in AddOps -> pre + rhs
      [] op \in SubOps -> pre - rhs
      [] op \in MulOps -> pre * rhs
      [] op \in DivOps -> TruncDiv(pre, rhs)
      [] op \in ModOps -> TruncRem(pre, rhs)
      [] op \in IncOps -> pre + 1
      [] op \in DecOps -> pre - 1
      [] op = "-x" -> -pre

\* C1: whenever the exact result of +=, -=, *=, /= (rhs # 0), unary -, ++ or --
\* lies outside [min, max] the call throws Overflow or Underflow; a call that
\* succeeds stores (unary -: returns) the exact result, and val stays in I.
C1_NoSilentWraparound ==
    (op \in (CompoundOps \ ModOps) \cup IncOps \cup DecOps \cup {"-x"} /\ HasExact) =>
        /\ val \in I
        /\ Exact \notin I => kind \in {"Overflow", "Underflow"}
        /\ (kind = "Ok" /\ op # "-x") => val = Exact
        /\ (kind = "Ok" /\ op = "-x") => RetVal = {Exact}

\* C2: when the exact result of a + - * / % (binary or compound, rhs # 0 for
\* / and %) lies in [min, max], the call succeeds and yields exactly it.
C2_NoSpuriousFailure ==
    (op \in CompoundOps \cup BinaryOps /\ HasExact /\ Exact \in I) =>
        /\ kind = "Ok"
        /\ RetVal = {Exact}
        /\ val = IF op \in CompoundOps THEN Exact ELSE pre

\* C3: a call that throws Overflow, Underflow or DomainError leaves the
\* stored value of the object it was called on as it was.
C3_FailureAtomicity == kind \in Failures => val = pre

C3_Witness == op = "++x" /\ pre = max /\ kind = "Overflow" /\ val = max

\* C4: x / 0 and x % 0 throw DomainError for every x, binary and compound.
C4_ZeroDivisorIsDomainError ==
    (op \in DivOps \cup ModOps /\ rhs = 0) => (kind = "DomainError" /\ ret = {})

C4_Witness == op = "/=" /\ pre = min /\ rhs = 0 /\ kind = "DomainError"

\* C5: min / -1 and -1 / min both throw Underflow, binary and compound.
C5_MinAndMinusOneUnderflow ==
    (op \in DivOps /\ ((pre = min /\ rhs = -1) \/ (pre = -1 /\ rhs = min))) =>
        kind = "Underflow"

C5_Witness == op = "/" /\ pre = -1 /\ rhs = min /\ kind = "Underflow"

\* C6: Overflow is thrown only when the exact result exceeds max, Underflow
\* only when it is below min, DomainError only when the divisor is zero.
C6_ErrorKindMatches ==
    (op \in CompoundOps \cup IncOps \cup DecOps \cup {"-x"}) =>
        /\ kind = "Overflow" => (HasExact /\ Exact > max)
        /\ kind = "Underflow" => (HasExact /\ Exact < min)
        /\ kind = "DomainError" => (op \in DivOps \cup ModOps /\ rhs = 0)

\* C7: constructing from a scalar of another width stores the value when it
\* lies in [min, max], throws Overflow above max and Underflow below min.
C7_NarrowingChecked ==
    op = "safe_int(N)" =>
        /\ rhs \in I => (kind = "Ok" /\ val = rhs)
        /\ rhs > max => kind = "Overflow"
        /\ rhs < min => kind = "Underflow"

\* C8: unary minus throws Overflow exactly when val = min, returns -val
\* otherwise, and never changes the operand.
C8_NegationExact ==
    op = "-x" =>
        /\ val = pre
        /\ pre = min => (kind = "Overflow" /\ ret = {})
        /\ pre # min => (kind = "Ok" /\ RetVal = {-pre})

C8_Witness == op = "-x" /\ pre = -max /\ kind = "Ok" /\ ret = {max} /\ val = -max

\* C9: every increment of a value below max stores val + 1 and returns the
\* new (pre) or old (post) value, every increment at max throws Overflow and
\* leaves max; decrements likewise with min and Underflow.
C9_IncDecStep ==
    [][/\ op' \in IncOps =>
            IF val = max
            THEN kind' = "Overflow" /\ val' = max /\ ret' = {}
            ELSE kind' = "Ok" /\ val' = val + 1
                 /\ {Wrap(x) : x \in ret'} = {IF op' = "++x" THEN val + 1 ELSE val}
       /\ op' \in DecOps =>
            IF val = min
            THEN kind' = "Underflow" /\ val' = min /\ ret' = {}
            ELSE kind' = "Ok" /\ val' = val - 1
                 /\ {Wrap(x) : x \in ret'} = {IF op' = "--x" THEN val - 1 ELSE val}]_vars

C9_Witness == op = "x++" /\ pre = max - 1 /\ kind = "Ok" /\ val = max /\ ret = {max - 1}

\* C10: every sub-expression evaluated inside a check has its exact value
\* in [min, max] and a nonzero divisor; min / val is never evaluated with
\* val = -1.
C10_GuardsOverflowFree ==
    \A x \in evald :
        /\ x.divisor # 0
        /\ x.exact \in I
        /\ ~(x.e = "min / val" /\ x.divisor = -1)
====
